---- MODULE Spec2Model ----
(***************************************************************************)
(* A model of the DotaStats Telegram bot: the Steam identity resolver      *)
(* (extract_account_id_safe), the stats client (get_player_data,           *)
(* get_recent_matches), the hero catalog (get_heroes_data), the match      *)
(* formatter (format_matches_for_display), the benchmark analyzer          *)
(* (analyze_command), the storage module (bind_user, get_account_id,       *)
(* update_score, add_friend, get_friends, get_leaderboard, get_user_stats) *)
(* and the bind conversation (bind_command, process_steam_link,            *)
(* process_steam_url).                                                     *)
(*                                                                         *)
(* Strings are sequences of one-character strings.  Python integers are    *)
(* unbounded and the Steam64 offset 76561197960265728 does not fit a       *)
(* 32-bit integer, so an integer is a sign and a magnitude, the magnitude  *)
(* a sequence of decimal digits, most significant first, without leading   *)
(* zeros (zero is the empty sequence).                                     *)
(***************************************************************************)
EXTENDS Integers, Sequences, FiniteSets, TLC

VARIABLES
    \* ---- extract_account_id_safe
    steam_url,      \* the argument of the call
    STEAM_API_KEY,  \* whether the credential is configured
    rpc,            \* "call" | "vanity_wait" | "returned" | "raised"
    result,         \* the value returned (an optional integer)
    vanity_resp,    \* the answer of ResolveVanityURL, once received
    http_calls,     \* session.get calls made by the resolver
    log_errors,     \* logger.error calls made by the resolver
    \* ---- get_heroes_data, format_matches_for_display
    matches,        \* the argument of format_matches_for_display
    HEROES_CACHE,   \* the global hero catalog
    hero_file,      \* what opening and loading hero_names.json gives
    fpc,            \* "call" | "heroes_wait" | "returned" | "raised"
    report,         \* what format_matches_for_display returned
    heroes_calls,   \* session.get calls made by get_heroes_data
    \* ---- get_player_data, get_recent_matches, analyze_command
    op,             \* the operation called
    limit,          \* the limit argument of get_recent_matches
    bound,          \* whether storage.get_account_id gives an account
    spc,            \* "call" | "wait" | "returned" | "raised"
    stats_resp,     \* the answer of the stats API, once received
    stats_calls,    \* session.get calls made by the operation
    out,            \* what the operation returned or sent to the user
    \* ---- storage
    config,         \* the module globals PSYCOPG2_AVAILABLE,
                    \* SQLITE_AVAILABLE, DATABASE_URL and USE_SQLITE
    users,          \* the rows of table users
    friends,        \* the rows of table friends, in the order of their ids
    now,            \* the clock of the database (CURRENT_TIMESTAMP)
    store_call,     \* the last call of a storage function and its result
    bound_to,       \* per chat identity, the account of its last
                    \* successful bind_user (none so far: <<>>)
    calls,          \* storage calls made
    \* ---- concurrent calls of get_heroes_data
    cpc,            \* per task: "idle" | "wait" | "done"
    cret,           \* per task: what its call returned
    cseen,          \* per task: whether the cache was populated at its start
    creply,         \* per task: the answer of /constants/heroes it received
    \* ---- bind conversation of one chat
    fsm,            \* the FSM state: "idle" | "waiting_steam_url"
    handler,        \* the handler that took the last message
    flow_in,        \* what the resolver, the stats API and the store gave
    sent,           \* the messages sent to the user by the last handler
    resolver_calls, \* extract_account_id_safe calls of the last handler
    bind_calls,     \* storage.bind_user calls of the last handler
    handled         \* messages handled so far

resolverVars == <<steam_url, STEAM_API_KEY, rpc, result, vanity_resp,
                  http_calls, log_errors>>

formatterVars == <<matches, HEROES_CACHE, hero_file, fpc, report,
                   heroes_calls>>

statsVars == <<op, limit, bound, spc, stats_resp, stats_calls, out>>

storeVars == <<config, users, friends, now, store_call, bound_to, calls>>

cacheVars == <<cpc, cret, cseen, creply>>

flowVars == <<fsm, handler, flow_in, sent, resolver_calls, bind_calls,
             handled>>

vars == <<resolverVars, formatterVars, statsVars, storeVars, cacheVars,
          flowVars>>

----------------------------------------------------------------------------
(* Bounds of the model *)

\* an input of the resolver is the concatenation of at most MaxParts parts
MaxParts == 3

\* a match list is one record, or a pattern of at most MaxBase records
\* repeated up to a length of at most MaxMatches
MaxBase == 3

MaxMatches == 11

\* a benchmark metric has at most MaxSamples samples
MaxSamples == 7

\* the storage calls of a run
MaxCalls == 3

\* the tasks that call get_heroes_data
MaxTasks == 2

\* the messages of a conversation
MaxMessages == 2

----------------------------------------------------------------------------
(* Python strings *)

Chr == <<"0", "1", "2", "3", "4", "5", "6", "7", "8", "9">>

DecimalChars == {Chr[i] : i \in 1..10}

\* the characters of the model: the decimal digits, a superscript two (a
\* digit for str.isdigit that int() does not accept), the blank, the slash
\* and some letters.  No sign and no underscore: over these characters
\* int() accepts exactly the blank-padded non-empty decimal strings.
SuperTwo == "^2"

DigitOf(c) == CHOOSE d \in 0..9 : Chr[d + 1] = c

Str(ds) == [i \in 1..Len(ds) |-> Chr[ds[i] + 1]]

IsSpace(c) == c = " "

RECURSIVE LStrip(_)
LStrip(s) == IF s # <<>> /\ IsSpace(Head(s)) THEN LStrip(Tail(s)) ELSE s

RECURSIVE RStrip(_)
RStrip(s) ==
    IF s # <<>> /\ IsSpace(s[Len(s)]) THEN RStrip(SubSeq(s, 1, Len(s) - 1))
    ELSE s

\* str.strip()
Strip(s) == RStrip(LStrip(s))

\* str.rstrip("/")
RECURSIVE RStripSlash(_)
RStripSlash(s) ==
    IF s # <<>> /\ s[Len(s)] = "/" THEN RStripSlash(SubSeq(s, 1, Len(s) - 1))
    ELSE s

\* str.isdigit(): non-empty, every character a digit (superscripts included)
IsDigit(s) ==
    /\ s # <<>>
    /\ \A i \in 1..Len(s) : s[i] \in DecimalChars \cup {SuperTwo}

\* sub in s
Contains(s, sub) ==
    \E i \in 0..(Len(s) - Len(sub)) : SubSeq(s, i + 1, i + Len(sub)) = sub

\* s.split("/")[-1]: what follows the last slash (all of s without a slash)
LastSegment(s) ==
    LET slashes == {i \in 1..Len(s) : s[i] = "/"}
        last == IF slashes = {} THEN 0
                ELSE CHOOSE i \in slashes : \A j \in slashes : j <= i
    IN  SubSeq(s, last + 1, Len(s))

----------------------------------------------------------------------------
(* Python integers *)

RECURSIVE StripZeros(_)
StripZeros(ds) ==
    IF ds # <<>> /\ Head(ds) = 0 THEN StripZeros(Tail(ds)) ELSE ds

\* a < b on magnitudes
MagLt(a, b) ==
    \/ Len(a) < Len(b)
    \/ /\ Len(a) = Len(b)
       /\ \E i \in 1..Len(a) :
             /\ a[i] < b[i]
             /\ \A j \in 1..(i - 1) : a[j] = b[j]

PadTo(ds, n) ==
    [i \in 1..n |-> IF i <= n - Len(ds) THEN 0 ELSE ds[i - (n - Len(ds))]]

\* a - b on magnitudes, for a >= b
MagSub(a, b) ==
    LET n == Len(a)
        bp == PadTo(b, n)
        bor[i \in 1..(n + 1)] ==
            IF i = n + 1 THEN 0
            ELSE IF a[i] - bp[i] - bor[i + 1] < 0 THEN 1 ELSE 0
    IN  StripZeros([i \in 1..n |-> (a[i] - bp[i] - bor[i + 1] + 10) % 10])

\* a + b on magnitudes
MagAdd(a, b) ==
    LET n == (IF Len(a) > Len(b) THEN Len(a) ELSE Len(b)) + 1
        ap == PadTo(a, n)
        bp == PadTo(b, n)
        car[i \in 1..(n + 1)] ==
            IF i = n + 1 THEN 0
            ELSE IF ap[i] + bp[i] + car[i + 1] > 9 THEN 1 ELSE 0
    IN  StripZeros([i \in 1..n |-> (ap[i] + bp[i] + car[i + 1]) % 10])

\* an optional integer: None, or a sign and a magnitude
None == [some |-> FALSE, neg |-> FALSE, mag |-> <<>>]

MkInt(neg, mag) == [some |-> TRUE, neg |-> neg /\ mag # <<>>, mag |-> mag]

\* x - y for integers x >= 0 and y >= 0 given by their magnitudes
NatMinus(x, y) ==
    IF MagLt(x, y) THEN MkInt(TRUE, MagSub(y, x)) ELSE MkInt(FALSE, MagSub(x, y))

\* int(s) for a string s: blanks around the number are ignored; anything but
\* a non-empty decimal string raises ValueError
PyInt(s) ==
    LET t == Strip(s)
    IN  IF t # <<>> /\ \A i \in 1..Len(t) : t[i] \in DecimalChars
        THEN [ok |-> TRUE,
              val |-> StripZeros([i \in 1..Len(t) |-> DigitOf(t[i])])]
        ELSE [ok |-> FALSE, val |-> <<>>]

----------------------------------------------------------------------------
(* Outcomes of a block of code: it returns a value, raises, or suspends at *)
(* a network call                                                          *)

Return(v) == [kind |-> "return", val |-> v, arg |-> <<>>]

Raise == [kind |-> "raise", val |-> None, arg |-> <<>>]

Await(arg) == [kind |-> "await", val |-> None, arg |-> arg]

----------------------------------------------------------------------------
(* Identity resolver *)

\* 76561197960265728
Steam64Offset == <<7, 6, 5, 6, 1, 1, 9, 7, 9, 6, 0, 2, 6, 5, 7, 2, 8>>

ShortIdLen == 11

ProfilesSeg == <<"/", "p", "r", "o", "f", "i", "l", "e", "s", "/">>

IdSeg == <<"/", "i", "d", "/">>

\* steam64 - 76561197960265728, for a steam64 >= 0 given by its magnitude
steam64_to_account_id(steam64) == NatMinus(steam64, Steam64Offset)

\* int(s) in a return statement
ReturnInt(s) ==
    IF PyInt(s).ok THEN Return(MkInt(FALSE, PyInt(s).val)) ELSE Raise

\* steam64 = int(...); return steam64_to_account_id(steam64)
ReturnConverted(s) ==
    IF PyInt(s).ok THEN Return(steam64_to_account_id(PyInt(s).val)) ELSE Raise

\* the branch taken for an input holding "/profiles/"
ProfilesDouble(s) ==
    IF PyInt(LastSegment(s)).ok
    THEN LET once == steam64_to_account_id(PyInt(LastSegment(s)).val)
         IN  IF once.neg THEN Return(once)
             ELSE Return(steam64_to_account_id(once.mag))
    ELSE Raise

ProfilesBranch(s) == ReturnConverted(LastSegment(s))

\* the branch taken for an input holding "/id/"
VanityBranch(s, key) ==
    IF ~key THEN Return(None) ELSE Await(LastSegment(s))

\* the branch taken for any other all-digit input
DigitsGeq(s) ==
    IF ~PyInt(s).ok THEN Raise
    ELSE IF ~MagLt(PyInt(s).val, Steam64Offset)
         THEN Return(steam64_to_account_id(PyInt(s).val))
         ELSE Return(MkInt(FALSE, PyInt(s).val))

DigitsBranch(s) ==
    IF ~PyInt(s).ok THEN Raise
    ELSE IF MagLt(Steam64Offset, PyInt(s).val)
         THEN Return(steam64_to_account_id(PyInt(s).val))
         ELSE Return(MkInt(FALSE, PyInt(s).val))

Normalize(raw) == RStripSlash(Strip(raw))

\* the body of the try block, up to the network call
ExtractBody(raw, key) ==
    LET s == Normalize(raw)
    IN  IF IsDigit(s) /\ Len(s) < ShortIdLen THEN ReturnInt(s)
        ELSE IF Contains(s, ProfilesSeg) THEN ProfilesBranch(s)
        ELSE IF Contains(s, IdSeg) THEN VanityBranch(s, key)
        ELSE IF IsDigit(s) THEN DigitsBranch(s)
        ELSE Return(None)

\* An answer of an HTTP API: the request fails (connection error, timeout)
\* or a status arrives with a body.  The body is not JSON ("invalid"), JSON
\* that is no object ("other"), or an object.
\* For ResolveVanityURL the object holds "response" or not; "response"
\* holds "success" (1: found, 42: no match) or not, and "steamid" or not.
VanitySteamIds ==
    { Str(<<7, 6, 5, 6, 1, 1, 9, 8, 0, 0, 0, 0, 0, 0, 0, 0, 1>>),
      Str(<<1, 2>>),
      <<"a", "b">> }

NoReply ==
    [net |-> "none", status |-> 0, json |-> "invalid", has_response |-> FALSE,
     success |-> 0, has_steamid |-> FALSE, steamid |-> <<>>]

VanityReplies ==
    [net : {"error", "timeout"}, status : {0}, json : {"invalid"},
     has_response : {FALSE}, success : {0}, has_steamid : {FALSE},
     steamid : {<<>>}]
    \cup
    [net : {"ok"}, status : {200, 403, 500}, json : {"invalid", "other"},
     has_response : {FALSE}, success : {0}, has_steamid : {FALSE},
     steamid : {<<>>}]
    \cup
    [net : {"ok"}, status : {200, 403}, json : {"object"},
     has_response : {FALSE}, success : {0}, has_steamid : {FALSE},
     steamid : {<<>>}]
    \cup
    [net : {"ok"}, status : {200, 403}, json : {"object"},
     has_response : {TRUE}, success : {0, 1, 42}, has_steamid : {FALSE},
     steamid : {<<>>}]
    \cup
    [net : {"ok"}, status : {200, 403}, json : {"object"},
     has_response : {TRUE}, success : {1, 42}, has_steamid : {TRUE},
     steamid : VanitySteamIds]

\* the body of the try block, from the answer of session.get on
VanityIgnoreStatus(r) ==
    IF r.net # "ok" THEN Raise
    ELSE IF r.json # "object" THEN Raise
    ELSE IF r.has_response /\ r.success = 1
         THEN IF r.has_steamid THEN ReturnConverted(r.steamid) ELSE Raise
         ELSE Return(None)

VanityBody(r) ==
    IF r.net # "ok" THEN Raise
    ELSE IF r.status = 200
         THEN IF r.json # "object" THEN Raise
              ELSE IF r.has_response /\ r.success = 1
                   THEN IF r.has_steamid THEN ReturnConverted(r.steamid)
                        ELSE Raise
                   ELSE Return(None)
         ELSE Return(None)

\* try: ... except Exception: logger.error(...); return None
Propagate(o) == o

TryExcept(o) == IF o.kind = "raise" THEN Return(None) ELSE o

\* the inputs of the model
Parts ==
    { <<"s", ".", "c", "o">>,
      ProfilesSeg,
      IdSeg,
      <<"/">>,
      <<" ">>,
      <<"g", "a", "b", "e">>,
      <<SuperTwo>>,
      Str(<<0>>),
      Str(<<1, 2, 3>>),
      Str(<<9, 9, 9, 9, 9, 9, 9, 9, 9, 9>>),
      Str(Steam64Offset),
      Str(<<7, 6, 5, 6, 1, 1, 9, 8, 0, 0, 0, 0, 0, 0, 0, 0, 1>>) }

RECURSIVE Concat(_)
Concat(ps) == IF ps = <<>> THEN <<>> ELSE Head(ps) \o Concat(Tail(ps))

Inputs ==
    UNION { {Concat(ps) : ps \in [1..n -> Parts]} : n \in 0..MaxParts }

ResolverStart ==
    /\ steam_url \in Inputs
    /\ STEAM_API_KEY \in BOOLEAN
    /\ rpc = "call"
    /\ result = None
    /\ vanity_resp = NoReply
    /\ http_calls = 0
    /\ log_errors = 0

\* completes the call with outcome o of the try block
Finish(o) ==
    /\ rpc' = IF TryExcept(o).kind = "raise" THEN "raised" ELSE "returned"
    /\ result' = TryExcept(o).val
    /\ log_errors' = IF o.kind = "raise" /\ TryExcept(o).kind # "raise"
                     THEN log_errors + 1 ELSE log_errors

\* extract_account_id_safe(steam_url), up to its return or its network call
ExtractStart ==
    /\ rpc = "call"
    /\ LET o == ExtractBody(steam_url, STEAM_API_KEY)
       IN  IF o.kind = "await"
           THEN /\ rpc' = "vanity_wait"
                /\ http_calls' = http_calls + 1
                /\ UNCHANGED <<result, log_errors>>
           ELSE /\ Finish(o)
                /\ UNCHANGED http_calls
    /\ UNCHANGED <<steam_url, STEAM_API_KEY, vanity_resp>>
    /\ UNCHANGED <<formatterVars, statsVars, storeVars, cacheVars, flowVars>>

\* extract_account_id_safe, from the answer of ResolveVanityURL on
VanityReply ==
    /\ rpc = "vanity_wait"
    /\ \E r \in VanityReplies :
          /\ vanity_resp' = r
          /\ Finish(VanityBody(r))
    /\ UNCHANGED <<steam_url, STEAM_API_KEY, http_calls>>
    /\ UNCHANGED <<formatterVars, statsVars, storeVars, cacheVars, flowVars>>

ResolverNext == ExtractStart \/ VanityReply

----------------------------------------------------------------------------
(* Hero catalog *)

\* A dictionary of heroes is given by the hero ids it has names for; "raw"
\* is the dictionary as json.load gives it, its keys still strings, which
\* no integer hero id finds.  NoHeroes is the value None.
Dict(ids) == [kind |-> "dict", ids |-> ids]

RawDict(ids) == [kind |-> "raw", ids |-> ids]

NoHeroes == [kind |-> "none", ids |-> {}]

KnownHeroes == {1, 2}

\* bool(HEROES_CACHE)
Truthy(d) == d.ids # {}

\* hero_names.json: it cannot be opened ("missing"), is no JSON
\* ("invalid"), holds the catalog ("ok"), or holds an object one of whose
\* keys is no integer ("bad_keys")
HeroFiles == {"missing", "invalid", "ok", "bad_keys"}

\* (get_heroes_data without "if HEROES_CACHE: return HEROES_CACHE")
HeroesReload(cache, file) ==
    IF file = "ok"
    THEN [done |-> TRUE, val |-> Dict(KnownHeroes),
          cache |-> Dict(KnownHeroes)]
    ELSE IF file = "bad_keys"
         THEN [done |-> FALSE, val |-> NoHeroes,
               cache |-> RawDict(KnownHeroes)]
    ELSE [done |-> FALSE, val |-> NoHeroes, cache |-> cache]

\* get_heroes_data up to its return or its network call: the value
\* returned (when it returns), and the cache afterwards
HeroesLocal(cache, file) ==
    IF Truthy(cache) THEN [done |-> TRUE, val |-> cache, cache |-> cache]
    ELSE IF file = "ok"
         THEN [done |-> TRUE, val |-> Dict(KnownHeroes),
               cache |-> Dict(KnownHeroes)]
    ELSE IF file = "bad_keys"
         THEN [done |-> FALSE, val |-> NoHeroes,
               cache |-> RawDict(KnownHeroes)]
    ELSE [done |-> FALSE, val |-> NoHeroes, cache |-> cache]

\* an answer of /constants/heroes: the request fails, or a status arrives
\* with a body that is the catalog ("object"), or no JSON, or JSON of
\* another shape
HeroReplies ==
    [net : {"error", "timeout"}, status : {0}, json : {"invalid"}]
    \cup [net : {"ok"}, status : {200}, json : {"object", "invalid", "other"}]
    \cup [net : {"ok"}, status : {404, 500}, json : {"invalid"}]

\* get_heroes_data from the answer of session.get on
HeroesRemote(cache, r) ==
    IF r.net # "ok" THEN [val |-> Dict({}), cache |-> cache]
    ELSE IF r.status = 200
         THEN IF r.json = "object"
              THEN [val |-> Dict(KnownHeroes), cache |-> Dict(KnownHeroes)]
              ELSE [val |-> Dict({}), cache |-> cache]
         ELSE [val |-> NoHeroes, cache |-> cache]

----------------------------------------------------------------------------
(* Match formatter *)

\* A field of a match record is <<>> (the key is absent) or <<v>>.
Get(field, default) == IF field = <<>> THEN default ELSE field[1]

RadiantSlots == 128

ShownLimit == 10

Match(slot, win, lane, hero) ==
    [player_slot |-> slot, radiant_win |-> win, lane_role |-> lane,
     hero_id |-> hero]

Opt(S) == {<<>>} \cup {<<v>> : v \in S}

\* the win test of one record
WinSlotLeq(m) ==
    LET is_radiant == Get(m.player_slot, 0) <= RadiantSlots
        radiant_win == Get(m.radiant_win, FALSE)
    IN  (is_radiant /\ radiant_win) \/ (~is_radiant /\ ~radiant_win)

Win(m) ==
    LET is_radiant == Get(m.player_slot, 0) < RadiantSlots
        radiant_win == Get(m.radiant_win, FALSE)
    IN  (is_radiant /\ radiant_win) \/ (~is_radiant /\ ~radiant_win)

\* what one record appends to roles
RoleOf(m) ==
    LET lane == Get(m.lane_role, 0)
    IN  IF lane = 1 THEN <<"Safe Lane">>
        ELSE IF lane = 2 THEN <<"Mid Lane">>
        ELSE IF lane = 3 THEN <<"Off Lane">>
        ELSE IF lane = 4 \/ lane = 5 THEN <<"Support">>
        ELSE <<>>

\* matches[:10]
Shown(ms) ==
    SubSeq(ms, 1, IF Len(ms) < ShownLimit THEN Len(ms) ELSE ShownLimit)

RECURSIVE Roles(_)
Roles(ms) == IF ms = <<>> THEN <<>> ELSE RoleOf(Head(ms)) \o Roles(Tail(ms))

RECURSIVE CountWins(_)
CountWins(ms) ==
    IF ms = <<>> THEN 0
    ELSE (IF Win(Head(ms)) THEN 1 ELSE 0) + CountWins(Tail(ms))

\* Counter(roles): the labels in the order of their first occurrence, each
\* with its count
Counter(rs) ==
    LET first == {i \in 1..Len(rs) : \A j \in 1..(i - 1) : rs[j] # rs[i]}
        at(k) == CHOOSE i \in first :
                     Cardinality({j \in first : j <= i}) = k
    IN  [k \in 1..Cardinality(first) |->
            [key |-> rs[at(k)],
             n |-> Cardinality({j \in 1..Len(rs) : rs[j] = rs[at(k)]})]]

\* most_common(1)[0]: max() over the items by count, which keeps the first
\* of equal items
MostCommonLast(c) ==
    c[CHOOSE i \in 1..Len(c) :
          \A j \in 1..Len(c) :
              c[j].n < c[i].n \/ (c[j].n = c[i].n /\ j <= i)]

MostCommon(c) ==
    c[CHOOSE i \in 1..Len(c) :
          \A j \in 1..Len(c) :
              c[j].n < c[i].n \/ (c[j].n = c[i].n /\ i <= j)]

\* the label shown when roles is empty
Undetermined == "Ne opredeleno"

\* num / den rounded to an integer, halves to the even neighbour
RoundHalfEven(num, den) ==
    LET q == num \div den
        r == num % den
    IN  IF 2 * r < den THEN q
        ELSE IF 2 * r > den THEN q + 1
        ELSE IF q % 2 = 0 THEN q ELSE q + 1

\* f"{winrate:.1f}" in tenths of a percent, winrate = wins / total * 100
\* (for the totals of the model the float and the exact quotient round to
\* the same decimal)
WinrateTenths(wins, total) ==
    IF total > 0 THEN RoundHalfEven(1000 * wins, total) ELSE 0

\* heroes.get(hero_id, f"Hero {hero_id}")
HeroName(heroes, id) ==
    IF heroes.kind = "dict" /\ id \in heroes.ids
    THEN [known |-> TRUE, id |-> id]
    ELSE [known |-> FALSE, id |-> id]

NoReport ==
    [kind |-> "none", total |-> 0, winrate |-> 0, wins |-> 0, losses |-> 0,
     main_role |-> "", role_count |-> 0, role_total |-> 0,
     outcomes |-> <<>>, names |-> <<>>]

Sentinel == [NoReport EXCEPT !.kind = "sentinel"]

\* the header and the lines of the summary.  A line's KDA and duration text
\* (lines 225-235) are not modelled: no property reads them.
Summary(ms, heroes) ==
    LET shown == Shown(ms)
        wins == CountWins(shown)
        total == Len(ms)
        roles == Roles(shown)
        top == IF roles # <<>> THEN MostCommon(Counter(roles))
               ELSE [key |-> Undetermined, n |-> 0]
    IN  [kind |-> "summary",
         total |-> total,
         winrate |-> WinrateTenths(wins, total),
         wins |-> wins,
         losses |-> total - wins,
         main_role |-> top.key,
         role_count |-> top.n,
         role_total |-> Len(roles),
         outcomes |-> [i \in 1..Len(shown) |-> Win(shown[i])],
         names |-> [i \in 1..Len(shown) |->
                       HeroName(heroes, Get(shown[i].hero_id, 0))]]

\* format_matches_for_display from the return of get_heroes_data on: the
\* position of the coroutine and its result.  heroes.get on None raises
\* AttributeError, which the function does not catch.
FormatWith(ms, heroes) ==
    IF heroes.kind = "none" THEN [pc |-> "raised", report |-> NoReport]
    ELSE [pc |-> "returned", report |-> Summary(ms, heroes)]

\* the match lists of the model
SlotValues == {0, 127, 128, 130}

LaneValues == 0..6

HeroIds == {1, 99}

AllRecords ==
    {Match(s, w, l, h) : s \in Opt(SlotValues), w \in Opt(BOOLEAN),
                         l \in Opt(LaneValues), h \in Opt(HeroIds)}

BaseRecords ==
    { Match(<<0>>, <<TRUE>>, <<1>>, <<1>>),
      Match(<<130>>, <<TRUE>>, <<2>>, <<2>>),
      Match(<<128>>, <<FALSE>>, <<4>>, <<99>>),
      Match(<<127>>, <<FALSE>>, <<5>>, <<1>>),
      Match(<<0>>, <<TRUE>>, <<3>>, <<2>>),
      Match(<<>>, <<>>, <<>>, <<>>) }

Cycle(base, n) == [i \in 1..n |-> base[((i - 1) % Len(base)) + 1]]

CyclesOf(k) ==
    UNION { {Cycle(base, n) : n \in {k} \cup ((ShownLimit - 1)..MaxMatches)} :
            base \in [1..k -> BaseRecords] }

MatchLists ==
    {<<>>}
    \cup {<<m>> : m \in AllRecords}
    \cup UNION {CyclesOf(k) : k \in 1..MaxBase}

FormatterStart ==
    /\ matches \in MatchLists
    /\ \/ HEROES_CACHE = Dict(KnownHeroes) /\ hero_file = "ok"
       \/ HEROES_CACHE = Dict({}) /\ hero_file \in HeroFiles
    /\ fpc = "call"
    /\ report = NoReport
    /\ heroes_calls = 0

\* format_matches_for_display(matches), up to its return or the network
\* call of get_heroes_data
FormatStart ==
    /\ fpc = "call"
    /\ IF matches = <<>>
       THEN /\ fpc' = "returned"
            /\ report' = Sentinel
            /\ UNCHANGED <<HEROES_CACHE, heroes_calls>>
       ELSE LET h == HeroesLocal(HEROES_CACHE, hero_file)
            IN  /\ HEROES_CACHE' = h.cache
                /\ IF h.done
                   THEN /\ fpc' = FormatWith(matches, h.val).pc
                        /\ report' = FormatWith(matches, h.val).report
                        /\ UNCHANGED heroes_calls
                   ELSE /\ fpc' = "heroes_wait"
                        /\ heroes_calls' = heroes_calls + 1
                        /\ UNCHANGED report
    /\ UNCHANGED <<matches, hero_file>>
    /\ UNCHANGED <<resolverVars, statsVars, storeVars, cacheVars, flowVars>>

\* format_matches_for_display, from the answer of /constants/heroes on
HeroesReply ==
    /\ fpc = "heroes_wait"
    /\ \E r \in HeroReplies :
          LET h == HeroesRemote(HEROES_CACHE, r)
          IN  /\ HEROES_CACHE' = h.cache
              /\ fpc' = FormatWith(matches, h.val).pc
              /\ report' = FormatWith(matches, h.val).report
    /\ UNCHANGED <<matches, hero_file, heroes_calls>>
    /\ UNCHANGED <<resolverVars, statsVars, storeVars, cacheVars, flowVars>>

FormatterNext == FormatStart \/ HeroesReply

----------------------------------------------------------------------------
(* Stats client and benchmark analyzer *)

Ops == {"get_player_data", "get_recent_matches", "analyze_command"}

DefaultLimit == 20

\* the recognized metrics, in the order of the metrics dictionary
Metrics ==
    <<"gold_per_min", "xp_per_min", "kills_per_min", "hero_damage_per_min",
      "hero_healing_per_min", "tower_damage", "last_hits_per_min">>

MinSamples == 6

TargetIndex == 4

\* The keys a benchmark answer of the model may hold: three recognized
\* metrics, "error", and a metric the analyzer does not know.  A benchmark
\* object maps each of them to <<>> (the key is absent) or <<samples>>.
BenchKeys ==
    {"gold_per_min", "xp_per_min", "last_hits_per_min", "error",
     "stuns_per_min"}

\* samples of rising percentile (in percent) and value; the sample at index
\* 4 has percentile base + 16
Samples(n, base) ==
    [i \in 1..n |-> [percentile |-> base + 4 * (i - 1), value |-> 100 * i]]

Bases == {0, 4, 24, 44, 64}

\* what a key of a benchmark answer holds: nothing (the key is absent), or
\* a list of samples
SampleLists(base) == {<<>>} \cup {<<Samples(n, base)>> : n \in 0..MaxSamples}

OtherValues(base) == {<<>>, <<Samples(1, base)>>}

Bench(gold, xp, last_hits, error, stuns) ==
    [k \in BenchKeys |->
        CASE k = "gold_per_min" -> gold
          [] k = "xp_per_min" -> xp
          [] k = "last_hits_per_min" -> last_hits
          [] k = "error" -> error
          [] OTHER -> stuns]

NoBench == [k \in BenchKeys |-> <<>>]

\* the body of an answer: no JSON ("invalid"), null, a number, an object, or
\* a list of n elements; bench is the object of a benchmark answer
Body(json, n, bench) == [json |-> json, n |-> n, bench |-> bench]

NoBody == Body("invalid", 0, NoBench)

BodiesOf(o) ==
    {NoBody}
    \cup ( IF o = "get_player_data"
           THEN {Body("object", 0, NoBench), Body("null", 0, NoBench)}
           ELSE IF o = "get_recent_matches"
           THEN {Body("object", 0, NoBench)}
                \cup {Body("list", n, NoBench) : n \in {0, 3, 10, 25}}
           ELSE {Body("null", 0, NoBench), Body("number", 0, NoBench),
                 Body("list", 3, NoBench)} )

\* an answer of status 200 whose body is the benchmark object b
BenchReply(b) == [net |-> "ok", status |-> 200, body |-> Body("object", 0, b)]

StatsReplies(o) ==
    [net : {"error", "timeout"}, status : {0}, body : {NoBody}]
    \cup [net : {"ok"}, status : {204, 404, 500}, body : {NoBody}]
    \cup [net : {"ok"}, status : {200}, body : BodiesOf(o)]

NoStatsReply == [net |-> "none", status |-> 0, body |-> NoBody]

\* what an operation gives: a value returned (None, the parsed JSON, a list
\* of n matches), or the message sent to the user, with the lines of the
\* analysis; "raise" is an exception leaving a block
Out(kind, n, lines) ==
    [kind |-> kind, n |-> n, lines |-> lines,
     advice |-> 4 + 5 * Len(lines) > 10]

Pending == Out("pending", 0, <<>>)

Raised == Out("raise", 0, <<>>)

\* get_player_data, the try block from the answer on
PlayerBody(r) ==
    IF r.net # "ok" THEN Raised
    ELSE IF r.status = 200
         THEN IF r.body.json = "invalid" THEN Raised
              ELSE IF r.body.json = "null" THEN Out("None", 0, <<>>)
              ELSE Out("json", 0, <<>>)
         ELSE Out("None", 0, <<>>)

\* get_player_data: except Exception: return None
PlayerPropagate(o) == o

PlayerCatch(o) == IF o.kind = "raise" THEN Out("None", 0, <<>>) ELSE o

\* get_recent_matches, the try block from the answer on
MatchesBody(r, lim) ==
    IF r.net # "ok" THEN Raised
    ELSE IF r.status = 200
         THEN IF r.body.json = "invalid" THEN Raised
              ELSE IF r.body.json = "list"
                   THEN Out("list", IF r.body.n < lim THEN r.body.n ELSE lim,
                            <<>>)
                   ELSE Out("list", 0, <<>>)
         ELSE Out("list", 0, <<>>)

\* get_recent_matches: except Exception: return []
MatchesCatch(o) == IF o.kind = "raise" THEN Out("list", 0, <<>>) ELSE o

\* the rating of a percentile, given in percent
Rating(percentile) ==
    IF percentile >= 80 THEN "Otlichno"
    ELSE IF percentile >= 60 THEN "Horosho"
    ELSE IF percentile >= 40 THEN "Sredne"
    ELSE IF percentile >= 20 THEN "Nizhe srednego"
    ELSE "Ploho"

HasKey(bench, key) == key \in DOMAIN bench /\ bench[key] # <<>>

\* what one metric adds to the analysis: nothing, or its line
MetricLineFive(bench, key) ==
    IF HasKey(bench, key) /\ bench[key][1] # <<>>
    THEN LET data_points == bench[key][1]
         IN  IF Len(data_points) >= MinSamples - 1
             THEN LET last == Len(data_points) - 1
                      target_index == IF TargetIndex < last THEN TargetIndex
                                      ELSE last
                      percentile_data == data_points[target_index + 1]
                  IN  <<[metric |-> key,
                         percentile |-> percentile_data.percentile,
                         value |-> percentile_data.value,
                         rating |-> Rating(percentile_data.percentile)]>>
             ELSE <<>>
    ELSE <<>>

MetricLine(bench, key) ==
    IF HasKey(bench, key) /\ bench[key][1] # <<>>
    THEN LET data_points == bench[key][1]
         IN  IF Len(data_points) >= MinSamples
             THEN LET last == Len(data_points) - 1
                      target_index == IF TargetIndex < last THEN TargetIndex
                                      ELSE last
                      percentile_data == data_points[target_index + 1]
                  IN  <<[metric |-> key,
                         percentile |-> percentile_data.percentile,
                         value |-> percentile_data.value,
                         rating |-> Rating(percentile_data.percentile)]>>
             ELSE <<>>
    ELSE <<>>

\* the loop over the metrics
RECURSIVE Analysis(_, _)
Analysis(bench, keys) ==
    IF keys = <<>> THEN <<>>
    ELSE MetricLine(bench, Head(keys)) \o Analysis(bench, Tail(keys))

\* analyze_command, the try block from the answer on.  A list has none of
\* the keys; `in` on a number raises TypeError.
AnalyzeBody(r) ==
    IF r.net # "ok" THEN Raised
    ELSE IF r.status # 200 THEN Out("msg_fetch_failed", 0, <<>>)
    ELSE IF r.body.json = "invalid" THEN Raised
    ELSE IF r.body.json = "null" THEN Out("msg_no_data", 0, <<>>)
    ELSE IF r.body.json = "number" THEN Raised
    ELSE IF r.body.json = "list" THEN Out("msg_analysis", 0, <<>>)
    ELSE IF r.body.bench = NoBench \/ HasKey(r.body.bench, "error")
         THEN Out("msg_no_data", 0, <<>>)
    ELSE Out("msg_analysis", 0, Analysis(r.body.bench, Metrics))

\* analyze_command: except Exception: message.answer(...)
AnalyzeCatch(o) == IF o.kind = "raise" THEN Out("msg_error", 0, <<>>) ELSE o

StatsStart ==
    /\ op \in Ops
    /\ limit \in {ShownLimit, DefaultLimit}
    /\ bound \in BOOLEAN
    /\ op # "get_recent_matches" => limit = DefaultLimit
    /\ op # "analyze_command" => bound
    /\ spc = "call"
    /\ stats_resp = NoStatsReply
    /\ stats_calls = 0
    /\ out = Pending

\* the operation up to its network call; analyze_command answers at once
\* when no account is bound
StatsCall ==
    /\ spc = "call"
    /\ IF op = "analyze_command" /\ ~bound
       THEN /\ spc' = "returned"
            /\ out' = Out("msg_not_bound", 0, <<>>)
            /\ UNCHANGED stats_calls
       ELSE /\ spc' = "wait"
            /\ stats_calls' = stats_calls + 1
            /\ UNCHANGED out
    /\ UNCHANGED <<op, limit, bound, stats_resp>>
    /\ UNCHANGED <<resolverVars, formatterVars, storeVars, cacheVars, flowVars>>

\* the result of the operation for the answer r
StatsResult(o, lim, r) ==
    IF o = "get_player_data" THEN PlayerCatch(PlayerBody(r))
    ELSE IF o = "get_recent_matches" THEN MatchesCatch(MatchesBody(r, lim))
    ELSE AnalyzeCatch(AnalyzeBody(r))

\* the operation completes with the answer r
Complete(r) ==
    /\ stats_resp' = r
    /\ out' = StatsResult(op, limit, r)
    /\ spc' = IF StatsResult(op, limit, r).kind = "raise" THEN "raised"
              ELSE "returned"

\* the operation, from the answer of the stats API on
StatsReply ==
    /\ spc = "wait"
    /\ \E r \in StatsReplies(op) : Complete(r)
    /\ UNCHANGED <<op, limit, bound, stats_calls>>
    /\ UNCHANGED <<resolverVars, formatterVars, storeVars, cacheVars, flowVars>>

\* analyze_command, from a benchmark object on
BenchmarkReply ==
    /\ spc = "wait"
    /\ op = "analyze_command"
    /\ \E base \in Bases :
          \E gold, xp, last_hits \in SampleLists(base) :
              \E error, stuns \in OtherValues(base) :
                  Complete(BenchReply(Bench(gold, xp, last_hits, error, stuns)))
    /\ UNCHANGED <<op, limit, bound, stats_calls>>
    /\ UNCHANGED <<resolverVars, formatterVars, storeVars, cacheVars, flowVars>>

StatsNext == StatsCall \/ StatsReply \/ BenchmarkReply

----------------------------------------------------------------------------
(* Storage module *)

\* the chat identities, accounts, point deltas and friends of the model
TelegramIds == {1, 2}

Accounts == {MkInt(FALSE, <<1, 0, 0>>), MkInt(FALSE, <<2, 0, 0>>)}

Deltas == {10, -5}

Friend(id, name) == [friend_account_id |-> id, friend_name |-> name]

FriendArgs == {Friend(10, "a"), Friend(20, "b")}

\* the time that passes between two calls, in ticks of the database clock
Elapsed == {0, 1}

\* The configuration the module computes when it is imported, from whether
\* psycopg2 can be imported and whether DATABASE_URL is set.
\* SQLITE_AVAILABLE is assigned only when psycopg2 is missing, and
\* USE_SQLITE is assigned only when psycopg2 is there: with psycopg2 and no
\* DATABASE_URL the name SQLITE_AVAILABLE is read unassigned and the import
\* fails; in every other case USE_SQLITE stays False.
ModuleConfig(psycopg2, url) ==
    [PSYCOPG2_AVAILABLE |-> psycopg2,
     SQLITE_AVAILABLE |-> IF psycopg2 THEN "unassigned" ELSE "True",
     DATABASE_URL |-> url,
     USE_SQLITE |-> FALSE,
     imported |-> ~(psycopg2 /\ ~url)]

\* get_conn(): the database the connection is to, "raise" when there is none
get_conn(cfg) ==
    IF cfg.USE_SQLITE /\ cfg.SQLITE_AVAILABLE = "True" THEN "sqlite"
    ELSE IF cfg.PSYCOPG2_AVAILABLE /\ cfg.DATABASE_URL THEN "postgres"
    ELSE "raise"

\* whether the try block of a storage function gets through get_conn and
\* its statement: there is a database and the connection holds (up)
Connected(cfg, up) == get_conn(cfg) # "raise" /\ up

DefaultScore == 0

\* a row of users as INSERT (telegram_id, account_id) makes it
User(t, a, ts) ==
    [telegram_id |-> t, account_id |-> a, score |-> DefaultScore,
     created_at |-> ts]

RowsOf(us, t) == {u \in us : u.telegram_id = t}

\* INSERT OR REPLACE INTO users: the row of the same key is deleted and
\* the new row inserted
InsertOrReplace(us, t, a, ts) == (us \ RowsOf(us, t)) \cup {User(t, a, ts)}

\* (an INSERT that ignores the key)
InsertPlain(us, t, a, ts) == us \cup {User(t, a, ts)}

\* INSERT INTO users ... ON CONFLICT (telegram_id) DO UPDATE SET account_id
InsertOnConflict(us, t, a, ts) ==
    IF RowsOf(us, t) # {}
    THEN {IF u.telegram_id = t THEN [u EXCEPT !.account_id = a] ELSE u :
          u \in us}
    ELSE us \cup {User(t, a, ts)}

\* bind_user(telegram_id, account_id) at time ts: the value returned and
\* the table afterwards
bind_user(us, cfg, up, t, a, ts) ==
    IF ~Connected(cfg, up) THEN [ret |-> FALSE, users |-> us]
    ELSE [ret |-> TRUE,
          users |-> IF cfg.USE_SQLITE THEN InsertOrReplace(us, t, a, ts)
                    ELSE InsertOnConflict(us, t, a, ts)]

\* get_account_id(telegram_id): <<>> is None
get_account_id(us, cfg, up, t) ==
    IF ~Connected(cfg, up) THEN <<>>
    ELSE IF RowsOf(us, t) = {} THEN <<>>
    ELSE <<(CHOOSE u \in RowsOf(us, t) : TRUE).account_id>>

\* (SET score = ?)
ScoreSet(score, points) == points

\* SET score = score + ?
ScoreAdd(score, points) == score + points

\* update_score(telegram_id, points); an UPDATE that matches no row is no
\* error
update_score(us, cfg, up, t, points) ==
    IF ~Connected(cfg, up) THEN [ret |-> FALSE, users |-> us]
    ELSE [ret |-> TRUE,
          users |-> {IF u.telegram_id = t
                     THEN [u EXCEPT !.score = ScoreAdd(@, points)]
                     ELSE u : u \in us}]

\* add_friend(telegram_id, friend_account_id, friend_name) at time ts.
\* PostgreSQL checks user_id REFERENCES users(telegram_id); SQLite does
\* not enforce foreign keys unless the connection asks for it.
add_friend(fs, us, cfg, up, t, f, ts) ==
    IF ~Connected(cfg, up) THEN [ret |-> FALSE, friends |-> fs]
    ELSE IF get_conn(cfg) = "postgres" /\ RowsOf(us, t) = {}
    THEN [ret |-> FALSE, friends |-> fs]
    ELSE [ret |-> TRUE,
          friends |-> fs \cup {[id |-> Cardinality(fs) + 1, user_id |-> t,
                                friend_account_id |-> f.friend_account_id,
                                friend_name |-> f.friend_name,
                                added_at |-> ts]}]

\* The orders ORDER BY key DESC may give the rows S in: SQL leaves the
\* order of rows of equal key open.
OrderByDesc(S, key) ==
    {o \in [1..Cardinality(S) -> S] :
        \A j, k \in 1..Cardinality(S) :
            j < k => o[j] # o[k] /\ o[j][key] >= o[k][key]}

\* get_friends(telegram_id): the lists the call may return
get_friends(fs, cfg, up, t) ==
    IF ~Connected(cfg, up) THEN {<<>>}
    ELSE {[j \in 1..Len(o) |-> Friend(o[j].friend_account_id,
                                      o[j].friend_name)] :
          o \in OrderByDesc({f \in fs : f.user_id = t}, "added_at")}

LeaderboardLimit == 10

Prefix(s, n) == [j \in 1..(IF Len(s) < n THEN Len(s) ELSE n) |-> s[j]]

\* get_leaderboard(limit): the lists the call may return
get_leaderboard(us, cfg, up, lim) ==
    IF ~Connected(cfg, up) THEN {<<>>}
    ELSE {[j \in 1..Len(Prefix(o, lim)) |->
              [telegram_id |-> o[j].telegram_id, score |-> o[j].score]] :
          o \in OrderByDesc(us, "score")}

\* get_user_stats(telegram_id): <<>> is None
get_user_stats(us, fs, cfg, up, t) ==
    IF ~Connected(cfg, up) THEN <<>>
    ELSE IF RowsOf(us, t) = {} THEN <<>>
    ELSE LET u == CHOOSE u \in RowsOf(us, t) : TRUE
         IN  <<[telegram_id |-> t, score |-> u.score,
                created_at |-> u.created_at,
                friends_count |-> Cardinality({f \in fs : f.user_id = t})]>>

NoFriend == Friend(0, "")

\* a call of a storage function: its arguments, the value returned, and
\* the rows of users of its chat identity before the call
Call(name, t, a, points, f, ret, prior) ==
    [op |-> name, telegram_id |-> t, account_id |-> a, points |-> points,
     friend |-> f, ret |-> ret, prior |-> prior]

NoCall == Call("none", 0, None, 0, NoFriend, FALSE, {})

\* the module as imported: the configurations with which the import
\* succeeds
Configs ==
    {cfg \in {ModuleConfig(p, u) : p, u \in BOOLEAN} : cfg.imported}

\* the module with USE_SQLITE and SQLITE_AVAILABLE set by hand to either
\* value, which runs the SQLite statements
ForcedConfigs ==
    {[ModuleConfig(TRUE, TRUE) EXCEPT !.USE_SQLITE = s,
                                      !.SQLITE_AVAILABLE = "True"] :
     s \in BOOLEAN}

EmptyStore ==
    /\ users = {}
    /\ friends = {}
    /\ now = 0
    /\ store_call = NoCall
    /\ bound_to = [t \in TelegramIds |-> <<>>]
    /\ calls = 0

StoreStart == config \in Configs /\ EmptyStore

BranchesStart == config \in ForcedConfigs /\ EmptyStore

\* storage.bind_user(t, a)
BindUser ==
    /\ calls < MaxCalls
    /\ \E t \in TelegramIds, a \in Accounts, up \in BOOLEAN, dt \in Elapsed :
          LET r == bind_user(users, config, up, t, a, now + dt)
          IN  /\ users' = r.users
              /\ now' = now + dt
              /\ store_call' = Call("bind_user", t, a, 0, NoFriend, r.ret,
                                    RowsOf(users, t))
              /\ bound_to' = IF r.ret THEN [bound_to EXCEPT ![t] = <<a>>]
                             ELSE bound_to
    /\ calls' = calls + 1
    /\ UNCHANGED <<config, friends>>
    /\ UNCHANGED <<resolverVars, formatterVars, statsVars, cacheVars,
                   flowVars>>

\* storage.update_score(t, points)
UpdateScore ==
    /\ calls < MaxCalls
    /\ \E t \in TelegramIds, p \in Deltas, up \in BOOLEAN, dt \in Elapsed :
          LET r == update_score(users, config, up, t, p)
          IN  /\ users' = r.users
              /\ now' = now + dt
              /\ store_call' = Call("update_score", t, None, p, NoFriend,
                                    r.ret, RowsOf(users, t))
    /\ calls' = calls + 1
    /\ UNCHANGED <<config, friends, bound_to>>
    /\ UNCHANGED <<resolverVars, formatterVars, statsVars, cacheVars,
                   flowVars>>

\* storage.add_friend(t, friend_account_id, friend_name)
AddFriend ==
    /\ calls < MaxCalls
    /\ \E t \in TelegramIds, f \in FriendArgs, up \in BOOLEAN,
          dt \in Elapsed :
          LET r == add_friend(friends, users, config, up, t, f, now + dt)
          IN  /\ friends' = r.friends
              /\ now' = now + dt
              /\ store_call' = Call("add_friend", t, None, 0, f, r.ret,
                                    RowsOf(users, t))
    /\ calls' = calls + 1
    /\ UNCHANGED <<config, users, bound_to>>
    /\ UNCHANGED <<resolverVars, formatterVars, statsVars, cacheVars,
                   flowVars>>

StoreNext == BindUser \/ UpdateScore \/ AddFriend

----------------------------------------------------------------------------
(* Concurrent calls of get_heroes_data: every task calls it once; a call  *)
(* runs without interruption up to its network call and from the answer   *)
(* on, as tasks of one event loop do.                                     *)

Tasks == 1..MaxTasks

NoHeroReply == [net |-> "none", status |-> 0, json |-> "invalid"]

CacheStart ==
    /\ HEROES_CACHE = Dict({})
    /\ hero_file \in HeroFiles
    /\ heroes_calls = 0
    /\ matches = <<>>
    /\ fpc = "idle"
    /\ report = NoReport
    /\ cpc = [c \in Tasks |-> "idle"]
    /\ cret = [c \in Tasks |-> NoHeroes]
    /\ cseen = [c \in Tasks |-> FALSE]
    /\ creply = [c \in Tasks |-> NoHeroReply]

\* task c calls get_heroes_data(): up to its return or its network call
HeroesCall(c) ==
    /\ cpc[c] = "idle"
    /\ LET h == HeroesLocal(HEROES_CACHE, hero_file)
       IN  /\ HEROES_CACHE' = h.cache
           /\ cseen' = [cseen EXCEPT ![c] = Truthy(HEROES_CACHE)]
           /\ IF h.done
              THEN /\ cpc' = [cpc EXCEPT ![c] = "done"]
                   /\ cret' = [cret EXCEPT ![c] = h.val]
                   /\ UNCHANGED heroes_calls
              ELSE /\ cpc' = [cpc EXCEPT ![c] = "wait"]
                   /\ heroes_calls' = heroes_calls + 1
                   /\ UNCHANGED cret
    /\ UNCHANGED <<creply, hero_file, matches, fpc, report>>
    /\ UNCHANGED <<resolverVars, statsVars, storeVars, flowVars>>

\* the call of task c, from the answer of /constants/heroes on
HeroesAnswer(c) ==
    /\ cpc[c] = "wait"
    /\ \E r \in HeroReplies :
          LET h == HeroesRemote(HEROES_CACHE, r)
          IN  /\ HEROES_CACHE' = h.cache
              /\ cret' = [cret EXCEPT ![c] = h.val]
              /\ creply' = [creply EXCEPT ![c] = r]
    /\ cpc' = [cpc EXCEPT ![c] = "done"]
    /\ UNCHANGED <<cseen, heroes_calls, hero_file, matches, fpc, report>>
    /\ UNCHANGED <<resolverVars, statsVars, storeVars, flowVars>>

CacheNext == \E c \in Tasks : HeroesCall(c) \/ HeroesAnswer(c)

----------------------------------------------------------------------------
(* Bind conversation of one chat: bind_command, process_steam_link and    *)
(* process_steam_url.  A handler is one step: the chat's next message is   *)
(* taken when the handler of the one before is through.                    *)

\* message.from_user.id
ChatId == 1

\* what the user may type as a link: an account id, zero, a /profiles/
\* link of a small number, a /id/ link
FlowUrls ==
    { Str(<<1, 2, 3>>),
      Str(<<0>>),
      ProfilesSeg \o Str(<<1, 2, 3>>),
      IdSeg \o <<"x">> }

\* a message of the chat: its command ("" when it has none) and the rest
\* of its text
Message(command, rest) == [command |-> command, rest |-> rest]

Messages ==
    {Message(c, u) : c \in {"bind", ""}, u \in FlowUrls}
    \cup {Message("bind", <<>>), Message("start", <<>>), Message("help", <<>>)}

\* The handler that takes a message: the first registered one whose filter
\* matches.  The command handlers are registered before the handler of
\* waiting_steam_url and have no state filter.
Dispatch(msg, state) ==
    IF msg.command = "start" THEN "start_command"
    ELSE IF msg.command = "help" THEN "help_command"
    ELSE IF msg.command = "bind" THEN "bind_command"
    ELSE IF state = "waiting_steam_url" THEN "process_steam_link"
    ELSE "other"

\* len(message.text.split()) > 1, for a rest without inner white space
HasArgs(msg) == Strip(msg.rest) # <<>>

\* ' '.join(args[1:]), for a rest without inner white space
JoinArgs(msg) == Strip(msg.rest)

\* the values extract_account_id_safe(url) may return
ResolverResults(url, key) ==
    LET o == TryExcept(ExtractBody(url, key))
    IN  IF o.kind = "await"
        THEN {TryExcept(VanityBody(r)).val : r \in VanityReplies}
        ELSE {o.val}

\* the values get_player_data may return: None, or the parsed JSON
PlayerResults ==
    {PlayerCatch(PlayerBody(r)).kind : r \in StatsReplies("get_player_data")}

\* not account_id
Falsy(v) == ~v.some \/ v.mag = <<>>

\* What the surroundings give a run of process_steam_url: the resolver's
\* result, the result of get_player_data, whether the player data is an
\* object whose 'profile' is an object (else .get raises), whether the
\* database connection holds, and which Telegram requests succeed: the
\* chat action, the answer of the try block, the answer of the handler.
Env(account, player, profile_ok, up, typing_ok, answer_ok, error_ok) ==
    [account |-> account, player |-> player, profile_ok |-> profile_ok,
     up |-> up, typing_ok |-> typing_ok, answer_ok |-> answer_ok,
     error_ok |-> error_ok]

NoEnv == Env(None, "None", FALSE, FALSE, FALSE, FALSE, FALSE)

\* the answer of the try block is sent, or it fails and the answer of the
\* handler is sent or fails too
Answers == {<<TRUE, TRUE>>, <<FALSE, TRUE>>, <<FALSE, FALSE>>}

\* The surroundings of the runs on url; what a run does not come to read is
\* left at the value it has in NoEnv.
Surroundings(url, key) ==
    {[NoEnv EXCEPT !.error_ok = e] : e \in BOOLEAN}
    \cup {Env(a, "None", FALSE, FALSE, TRUE, s[1], s[2]) :
            a \in ResolverResults(url, key), s \in Answers}
    \cup {Env(a, "json", FALSE, FALSE, TRUE, FALSE, e) :
            a \in {r \in ResolverResults(url, key) : ~Falsy(r)},
            e \in BOOLEAN}
    \cup {Env(a, "json", TRUE, up, TRUE, s[1], s[2]) :
            a \in {r \in ResolverResults(url, key) : ~Falsy(r)},
            up \in BOOLEAN, s \in Answers}

\* the outcome of a block of a handler: the messages delivered, the calls
\* made, the value bind_user returned, the table, and whether an
\* exception left the block
Outcome(msgs, rcalls, bret, us, raised) ==
    [sent |-> msgs, resolver_calls |-> rcalls, bind_ret |-> bret,
     users |-> us, raised |-> raised]

\* message.answer(text) inside the try block, then return
AnswerAndReturn(text, rcalls, bret, us, ok) ==
    IF ok THEN Outcome(<<text>>, rcalls, bret, us, FALSE)
    ELSE Outcome(<<>>, rcalls, bret, us, TRUE)

\* (the try block with the binding written before the player is fetched)
BindBeforePlayer(us, cfg, t, env, ts) ==
    IF ~env.typing_ok THEN Outcome(<<>>, 0, <<>>, us, TRUE)
    ELSE IF Falsy(env.account)
    THEN AnswerAndReturn("unrecognized", 1, <<>>, us, env.answer_ok)
    ELSE LET r == bind_user(us, cfg, env.up, t, env.account, ts)
         IN  IF env.player = "None"
             THEN AnswerAndReturn("no_player", 1, <<r.ret>>, r.users,
                                  env.answer_ok)
             ELSE IF ~env.profile_ok
             THEN Outcome(<<>>, 1, <<r.ret>>, r.users, TRUE)
             ELSE AnswerAndReturn("bound", 1, <<r.ret>>, r.users,
                                  env.answer_ok)

\* the try block of process_steam_url
TryBlock(us, cfg, t, env, ts) ==
    IF ~env.typing_ok THEN Outcome(<<>>, 0, <<>>, us, TRUE)
    ELSE IF Falsy(env.account)
    THEN AnswerAndReturn("unrecognized", 1, <<>>, us, env.answer_ok)
    ELSE IF env.player = "None"
    THEN AnswerAndReturn("no_player", 1, <<>>, us, env.answer_ok)
    ELSE IF ~env.profile_ok THEN Outcome(<<>>, 1, <<>>, us, TRUE)
    ELSE LET r == bind_user(us, cfg, env.up, t, env.account, ts)
         IN  AnswerAndReturn("bound", 1, <<r.ret>>, r.users, env.answer_ok)

\* process_steam_url: except Exception: logger.error; message.answer
process_steam_url(us, cfg, t, env, ts) ==
    LET o == TryBlock(us, cfg, t, env, ts)
    IN  IF ~o.raised THEN o
        ELSE IF env.error_ok THEN [o EXCEPT !.sent = <<"error">>,
                                            !.raised = FALSE]
        ELSE o

\* (process_steam_link without state.clear())
KeepState(state, raised) == state

\* the FSM state after process_steam_link: state.clear() runs when
\* process_steam_url returned
ClearState(state, raised) == IF raised THEN state ELSE "idle"

\* the FSM state after bind_command without arguments: set_state runs when
\* the prompt was sent
SetWaiting(state, raised) == IF raised THEN state ELSE "waiting_steam_url"

\* what a handler was given and what it did
Handled(msg, state, env, o, us) ==
    [msg |-> msg, fsm |-> state, env |-> env, bind_ret |-> o.bind_ret,
     raised |-> o.raised, users |-> us]

NoHandled ==
    [msg |-> Message("", <<>>), fsm |-> "idle", env |-> NoEnv,
     bind_ret |-> <<>>, raised |-> FALSE, users |-> {}]

FlowStart ==
    /\ fsm = "idle"
    /\ handler = "none"
    /\ flow_in = NoHandled
    /\ sent = <<>>
    /\ resolver_calls = 0
    /\ bind_calls = 0
    /\ handled = 0
    /\ config \in Configs
    /\ EmptyStore
    /\ STEAM_API_KEY \in BOOLEAN
    /\ steam_url = <<>>
    /\ rpc = "idle"
    /\ result = None
    /\ vanity_resp = NoReply
    /\ http_calls = 0
    /\ log_errors = 0

\* the effects of a run of process_steam_url with outcome o on the store
\* and on what the handler has done
Ran(msg, env, o) ==
    /\ sent' = o.sent
    /\ resolver_calls' = o.resolver_calls
    /\ bind_calls' = Len(o.bind_ret)
    /\ flow_in' = Handled(msg, fsm, env, o, users)
    /\ users' = o.users
    /\ now' = now + 1
    /\ IF o.bind_ret # <<>>
       THEN /\ store_call' = Call("bind_user", ChatId, env.account, 0,
                                  NoFriend, o.bind_ret[1],
                                  RowsOf(users, ChatId))
            /\ bound_to' = IF o.bind_ret[1]
                           THEN [bound_to EXCEPT ![ChatId] = <<env.account>>]
                           ELSE bound_to
            /\ calls' = calls + 1
       ELSE UNCHANGED <<store_call, bound_to, calls>>

FlowFrame ==
    /\ handled' = handled + 1
    /\ UNCHANGED <<config, friends>>
    /\ UNCHANGED <<resolverVars, formatterVars, statsVars, cacheVars>>

\* bind_command with an argument: "/bind <link>"
BindWithArgs ==
    /\ handled < MaxMessages
    /\ \E msg \in Messages :
          /\ Dispatch(msg, fsm) = "bind_command"
          /\ HasArgs(msg)
          /\ \E env \in Surroundings(JoinArgs(msg), STEAM_API_KEY) :
                Ran(msg, env,
                    process_steam_url(users, config, ChatId, env, now + 1))
    /\ handler' = "bind_command"
    /\ UNCHANGED fsm
    /\ FlowFrame

\* bind_command without an argument: the prompt, then set_state
BindPrompt ==
    /\ handled < MaxMessages
    /\ \E msg \in Messages, ok \in BOOLEAN :
          /\ Dispatch(msg, fsm) = "bind_command"
          /\ ~HasArgs(msg)
          /\ sent' = IF ok THEN <<"prompt">> ELSE <<>>
          /\ fsm' = SetWaiting(fsm, ~ok)
          /\ flow_in' = [NoHandled EXCEPT !.msg = msg, !.fsm = fsm,
                                          !.raised = ~ok, !.users = users]
    /\ handler' = "bind_command"
    /\ resolver_calls' = 0
    /\ bind_calls' = 0
    /\ UNCHANGED <<users, now, store_call, bound_to, calls>>
    /\ FlowFrame

\* process_steam_link: the message is the link
ProcessSteamLink ==
    /\ handled < MaxMessages
    /\ \E msg \in Messages :
          /\ Dispatch(msg, fsm) = "process_steam_link"
          /\ \E env \in Surroundings(msg.rest, STEAM_API_KEY) :
                LET o == process_steam_url(users, config, ChatId, env,
                                           now + 1)
                IN  /\ Ran(msg, env, o)
                    /\ fsm' = ClearState(fsm, o.raised)
    /\ handler' = "process_steam_link"
    /\ FlowFrame

\* start_command, help_command and the handlers of other messages: they
\* answer and leave the FSM state alone
OtherHandler ==
    /\ handled < MaxMessages
    /\ \E msg \in Messages, ok \in BOOLEAN :
          /\ Dispatch(msg, fsm) \in {"start_command", "help_command", "other"}
          /\ handler' = Dispatch(msg, fsm)
          /\ sent' = IF ok THEN <<"text">> ELSE <<>>
          /\ flow_in' = [NoHandled EXCEPT !.msg = msg, !.fsm = fsm,
                                          !.raised = ~ok, !.users = users]
    /\ resolver_calls' = 0
    /\ bind_calls' = 0
    /\ UNCHANGED <<fsm, users, now, store_call, bound_to, calls>>
    /\ FlowFrame

FlowNext == BindWithArgs \/ BindPrompt \/ ProcessSteamLink \/ OtherHandler

----------------------------------------------------------------------------
(* Specifications: one per component, the others at rest *)

ResolverIdle ==
    /\ steam_url = <<>>
    /\ STEAM_API_KEY = FALSE
    /\ rpc = "idle"
    /\ result = None
    /\ vanity_resp = NoReply
    /\ http_calls = 0
    /\ log_errors = 0

FormatterIdle ==
    /\ matches = <<>>
    /\ HEROES_CACHE = Dict({})
    /\ hero_file = "missing"
    /\ fpc = "idle"
    /\ report = NoReport
    /\ heroes_calls = 0

StatsIdle ==
    /\ op = "get_player_data"
    /\ limit = DefaultLimit
    /\ bound = TRUE
    /\ spc = "idle"
    /\ stats_resp = NoStatsReply
    /\ stats_calls = 0
    /\ out = Pending

StoreIdle == config = ModuleConfig(TRUE, TRUE) /\ EmptyStore

CacheIdle ==
    /\ cpc = <<>>
    /\ cret = <<>>
    /\ cseen = <<>>
    /\ creply = <<>>

FlowIdle ==
    /\ fsm = "idle"
    /\ handler = "none"
    /\ flow_in = NoHandled
    /\ sent = <<>>
    /\ resolver_calls = 0
    /\ bind_calls = 0
    /\ handled = 0

ResolverInit ==
    ResolverStart /\ FormatterIdle /\ StatsIdle /\ StoreIdle /\ CacheIdle
    /\ FlowIdle

SpecResolver == ResolverInit /\ [][ResolverNext]_vars

FormatterInit ==
    FormatterStart /\ ResolverIdle /\ StatsIdle /\ StoreIdle /\ CacheIdle
    /\ FlowIdle

SpecFormatter == FormatterInit /\ [][FormatterNext]_vars

StatsInit ==
    StatsStart /\ ResolverIdle /\ FormatterIdle /\ StoreIdle /\ CacheIdle
    /\ FlowIdle

SpecStats == StatsInit /\ [][StatsNext]_vars

StoreInit ==
    StoreStart /\ ResolverIdle /\ FormatterIdle /\ StatsIdle /\ CacheIdle
    /\ FlowIdle

SpecStore == StoreInit /\ [][StoreNext]_vars

CacheInit ==
    CacheStart /\ ResolverIdle /\ StatsIdle /\ StoreIdle /\ FlowIdle

SpecCache == CacheInit /\ [][CacheNext]_vars

FlowInit == FlowStart /\ FormatterIdle /\ StatsIdle /\ CacheIdle

SpecFlow == FlowInit /\ [][FlowNext]_vars

BranchesInit ==
    BranchesStart /\ ResolverIdle /\ FormatterIdle /\ StatsIdle /\ CacheIdle
    /\ FlowIdle

SpecBranches == BranchesInit /\ [][StoreNext]_vars

----------------------------------------------------------------------------
(* Properties of the identity resolver *)

IsDecimal(s) == s # <<>> /\ \A i \in 1..Len(s) : s[i] \in DecimalChars

ValueOf(s) == StripZeros([i \in 1..Len(s) |-> DigitOf(s[i])])

\* r is the integer n - 76561197960265728, stated with an addition
IsOffsetBelow(r, n) ==
    /\ r.some
    /\ IF r.neg THEN MagAdd(n, r.mag) = Steam64Offset
       ELSE MagAdd(r.mag, Steam64Offset) = n

ExampleProfileUrl ==
    <<"s", ".", "c", "o">> \o ProfilesSeg
        \o Str(<<7, 6, 5, 6, 1, 1, 9, 8, 0, 0, 0, 0, 0, 0, 0, 0, 1>>)

\* C1: extract_account_id_safe is total: whatever the input and whatever
\* the vanity API answers (connection error, timeout, non-200 status,
\* non-success answer, unparseable body), the call never raises to its
\* caller, a suspended call can always complete, and what it returns is None
\* or an integer.
C1_ResolverTotal ==
    /\ rpc # "raised"
    /\ rpc = "vanity_wait" => ENABLED VanityReply
    /\ rpc = "returned" => (result = None \/ result.some)
    /\ rpc = "returned" /\ log_errors > 0 => result = None

\* a call that raised inside (the vanity request timed out) and returned None
C1_Witness ==
    /\ rpc = "returned"
    /\ vanity_resp.net = "timeout"
    /\ log_errors = 1
    /\ result = None

\* C2: for an input holding "/profiles/" whose last path segment, after
\* trimming blanks and trailing slashes, is a decimal number S, the resolver
\* returns S - 76561197960265728: the offset is subtracted once; the input
\* ".../profiles/76561198000000001" resolves to 39734273.
C2_ProfilesOffsetOnce ==
    rpc = "returned" =>
        /\ ( /\ Contains(steam_url, ProfilesSeg)
             /\ IsDecimal(LastSegment(Normalize(steam_url))) )
           => IsOffsetBelow(result, ValueOf(LastSegment(Normalize(steam_url))))
        /\ steam_url = ExampleProfileUrl
           => result = MkInt(FALSE, <<3, 9, 7, 3, 4, 2, 7, 3>>)

C2_Witness ==
    /\ rpc = "returned"
    /\ Contains(steam_url, ProfilesSeg)
    /\ steam_url # Normalize(steam_url)
    /\ result = MkInt(FALSE, <<3, 9, 7, 3, 4, 2, 7, 3>>)

\* C3: for an all-digit input with value n: a string shorter than 11
\* characters resolves to n; a longer one resolves to n - 76561197960265728
\* when n > 76561197960265728 and to n otherwise; the rule for long strings,
\* applied to a short string, gives the same answer as the rule for short
\* strings.
C3_AllDigitRules ==
    LET s == Normalize(steam_url)
        n == ValueOf(s)
    IN  (rpc = "returned" /\ IsDecimal(s)) =>
            /\ Len(s) < ShortIdLen =>
                  /\ result = MkInt(FALSE, n)
                  /\ DigitsBranch(s) = Return(result)
            /\ (Len(s) >= ShortIdLen /\ MagLt(Steam64Offset, n)) =>
                  /\ IsOffsetBelow(result, n)
                  /\ ~result.neg
            /\ (Len(s) >= ShortIdLen /\ ~MagLt(Steam64Offset, n)) =>
                  result = MkInt(FALSE, n)

\* an all-digit input of the value of the offset itself, returned unchanged
C3_Witness ==
    /\ rpc = "returned"
    /\ IsDecimal(Normalize(steam_url))
    /\ ValueOf(Normalize(steam_url)) = Steam64Offset
    /\ result = MkInt(FALSE, Steam64Offset)

\* C4: every account identifier the resolver returns is a non-negative
\* integer.
C4_NonNegative == (rpc = "returned" /\ result.some) => ~result.neg

\* C5: for an input holding "/id/" and no "/profiles/": without a Steam API
\* credential the resolver returns None and makes no request; with one it
\* makes one request and returns an identifier only if the answer has
\* status 200 and success 1, and the identifier is then the answer's Steam64
\* minus the offset; every other answer gives None.
C5_VanityResolution ==
    (Contains(steam_url, IdSeg) /\ ~Contains(steam_url, ProfilesSeg)) =>
        /\ http_calls <= 1
        /\ ~STEAM_API_KEY => (http_calls = 0 /\ rpc # "vanity_wait")
        /\ (rpc = "returned" /\ ~STEAM_API_KEY) => result = None
        /\ rpc = "returned" =>
              IF /\ http_calls = 1
                 /\ vanity_resp.net = "ok"
                 /\ vanity_resp.status = 200
                 /\ vanity_resp.json = "object"
                 /\ vanity_resp.has_response
                 /\ vanity_resp.success = 1
                 /\ vanity_resp.has_steamid
                 /\ IsDecimal(Strip(vanity_resp.steamid))
              THEN IsOffsetBelow(result, ValueOf(Strip(vanity_resp.steamid)))
              ELSE result = None

C5_Witness ==
    /\ rpc = "returned"
    /\ STEAM_API_KEY
    /\ Contains(steam_url, IdSeg)
    /\ vanity_resp.status = 200
    /\ vanity_resp.success = 1
    /\ result = MkInt(FALSE, <<3, 9, 7, 3, 4, 2, 7, 3>>)

----------------------------------------------------------------------------
(* Properties of the match formatter *)

Summarized == fpc = "returned" /\ report.kind = "summary"

NumShown == IF Len(matches) < 10 THEN Len(matches) ELSE 10

NumTrue(bs) == Cardinality({i \in 1..Len(bs) : bs[i]})

IsExampleList ==
    /\ Len(matches) = 2
    /\ matches[1].player_slot = <<0>> /\ matches[1].radiant_win = <<TRUE>>
    /\ matches[2].player_slot = <<130>> /\ matches[2].radiant_win = <<TRUE>>

\* C6: a shown match is counted as a win exactly when (player_slot < 128 and
\* radiant_win) or (player_slot >= 128 and not radiant_win), and wins is the
\* number of such matches; for the matches [{slot 0, radiant_win true},
\* {slot 130, radiant_win true}] the outcomes are [win, loss] and the win
\* rate shown is 50.0%.
C6_WinClassification ==
    Summarized =>
        /\ Len(report.outcomes) = NumShown
        /\ \A i \in 1..Len(report.outcomes) :
              (matches[i].player_slot # <<>> /\ matches[i].radiant_win # <<>>)
              => ( report.outcomes[i] <=>
                      \/ /\ matches[i].player_slot[1] < 128
                         /\ matches[i].radiant_win[1]
                      \/ /\ matches[i].player_slot[1] >= 128
                         /\ ~matches[i].radiant_win[1] )
        /\ report.wins = NumTrue(report.outcomes)
        /\ IsExampleList =>
              /\ report.outcomes = <<TRUE, FALSE>>
              /\ report.winrate = 500

\* the example list, summarized
C6_Witness ==
    /\ Summarized
    /\ IsExampleList
    /\ report.outcomes = <<TRUE, FALSE>>
    /\ report.winrate = 500

\* C7: for a non-empty match list of any length the win rate shown is the
\* wins over the number of matches shown (at most 10), and the wins and
\* losses shown add up to the number of matches shown.
C7_WinRateOverShown ==
    Summarized =>
        /\ report.winrate = RoundHalfEven(1000 * NumTrue(report.outcomes),
                                          NumShown)
        /\ report.wins + report.losses = NumShown

\* C8: the main role is the most frequent label among the lane roles of the
\* shown matches (codes 1, 2, 3 and 4 or 5, the last two under one label),
\* the label met first among equally frequent ones; it is shown with its
\* count over the number of matches tallied, the matches without such a
\* code left out; with nothing tallied the fixed label is shown.
C8_MainRole ==
    Summarized =>
        LET lane(i) == IF matches[i].lane_role = <<>> THEN 0
                       ELSE matches[i].lane_role[1]
            label(i) == CASE lane(i) = 1 -> "Safe Lane"
                          [] lane(i) = 2 -> "Mid Lane"
                          [] lane(i) = 3 -> "Off Lane"
                          [] lane(i) \in {4, 5} -> "Support"
                          [] OTHER -> ""
            tallied == {i \in 1..NumShown : label(i) # ""}
            count(l) == Cardinality({i \in tallied : label(i) = l})
            first(l) == CHOOSE i \in tallied :
                            /\ label(i) = l
                            /\ \A j \in tallied : label(j) = l => i <= j
        IN  /\ report.role_total = Cardinality(tallied)
            /\ tallied = {} =>
                  /\ report.main_role = Undetermined
                  /\ report.role_count = 0
            /\ tallied # {} =>
                  /\ \E i \in tallied : label(i) = report.main_role
                  /\ report.role_count = count(report.main_role)
                  /\ \A i \in tallied :
                        /\ count(label(i)) <= report.role_count
                        /\ ( /\ count(label(i)) = report.role_count
                             /\ label(i) # report.main_role )
                           => first(report.main_role) < i

\* two labels tallied three times each, the first one met shown, and three
\* matches that are not tallied
C8_Witness ==
    /\ Summarized
    /\ report.role_count = 3
    /\ report.role_total = 6
    /\ Len(report.outcomes) = 9
    /\ report.main_role = "Mid Lane"

----------------------------------------------------------------------------
(* Properties of the stats client and the benchmark analyzer *)

\* the analyzer ran: the benchmark answer is a non-empty object without
\* "error"
Analyzed ==
    /\ op = "analyze_command"
    /\ spc \in {"returned", "raised"}
    /\ stats_resp.net = "ok"
    /\ stats_resp.status = 200
    /\ stats_resp.body.json = "object"
    /\ stats_resp.body.bench # NoBench
    /\ stats_resp.body.bench["error"] = <<>>

SamplesOf(key) ==
    IF key \in BenchKeys /\ stats_resp.body.bench[key] # <<>>
    THEN stats_resp.body.bench[key][1]
    ELSE <<>>

InInput(key) == key \in BenchKeys /\ stats_resp.body.bench[key] # <<>>

FetchFailed ==
    \/ stats_resp.net \in {"error", "timeout"}
    \/ /\ stats_resp.net = "ok"
       /\ \/ stats_resp.status < 200
          \/ stats_resp.status > 299
          \/ stats_resp.body.json = "invalid"

\* C10: get_player_data, get_recent_matches and the benchmark fetch of
\* analyze_command make one HTTP request per call and never a second one;
\* after a status outside 2xx, a timeout, a connection error or a malformed
\* body they give None, an empty list, or a message to try later, and no
\* exception leaves them.
C10_SingleAttempt ==
    /\ spc # "raised"
    /\ stats_calls <= 1
    /\ spc = "wait" => stats_calls = 1
    /\ (spc = "returned" /\ stats_resp.net # "none") => stats_calls = 1
    /\ (spc = "returned" /\ FetchFailed) =>
          /\ op = "get_player_data" => out.kind = "None"
          /\ op = "get_recent_matches" => (out.kind = "list" /\ out.n = 0)
          /\ op = "analyze_command" =>
                out.kind \in {"msg_fetch_failed", "msg_error"}

\* the benchmark fetch timed out and the user was told to try later
C10_Witness ==
    /\ spc = "returned"
    /\ op = "analyze_command"
    /\ stats_resp.net = "timeout"
    /\ stats_calls = 1
    /\ out.kind = "msg_error"

----------------------------------------------------------------------------
(* Properties of the storage module *)

\* the last call was name, and it returned True
Succeeded(name) == store_call.op = name /\ store_call.ret

\* the row of chat identity t (it has one)
RowOf(us, t) == CHOOSE u \in RowsOf(us, t) : TRUE

\* binding t to a twice, the second time dt ticks later, leaves the table
\* that binding it once leaves
BindTwiceIsOnce(t, a, dt) ==
    LET once == bind_user(users, config, TRUE, t, a, now)
        twice == bind_user(once.users, config, TRUE, t, a, now + dt)
    IN  once.ret => twice.ret /\ twice.users = once.users

RECURSIVE AfterUpdates(_, _, _), Sum(_)

\* the table after successful update_score calls for t with the deltas ps,
\* in that order
AfterUpdates(us, t, ps) ==
    IF ps = <<>> THEN us
    ELSE AfterUpdates(update_score(us, config, TRUE, t, Head(ps)).users, t,
                      Tail(ps))

Sum(ps) == IF ps = <<>> THEN 0 ELSE Head(ps) + Sum(Tail(ps))

\* the sequences of at most two deltas
DeltaSeqs == UNION {[1..n -> Deltas] : n \in 0..2}

\* C12: update_score is additive.  A successful update_score of a bound
\* chat identity leaves its row with the prior score plus the delta and
\* nothing else changed; from every store reached, a sequence of updates
\* of a bound identity leaves its score at the prior score plus the sum of
\* the deltas, whatever their order (+10 then -5: the prior score plus 5),
\* and leaves the other rows alone.
C12_AdditiveScore ==
    /\ Succeeded("update_score") /\ store_call.prior # {}
        => RowsOf(users, store_call.telegram_id)
             = {[u EXCEPT !.score = @ + store_call.points] :
                u \in store_call.prior}
    /\ \A t \in TelegramIds :
          RowsOf(users, t) # {} /\ get_conn(config) # "raise" =>
            /\ \A ps \in DeltaSeqs :
                  /\ RowsOf(AfterUpdates(users, t, ps), t)
                        = {[RowOf(users, t) EXCEPT !.score = @ + Sum(ps)]}
                  /\ AfterUpdates(users, t, ps) \ RowsOf(AfterUpdates(users, t, ps), t)
                        = users \ RowsOf(users, t)
            /\ RowOf(AfterUpdates(users, t, <<10, -5>>), t).score
                  = RowOf(users, t).score + 5

\* a bound chat identity of score 10 took update_score(-5) and has score 5
C12_Witness ==
    /\ Succeeded("update_score")
    /\ store_call.points = -5
    /\ store_call.prior # {}
    /\ RowOf(store_call.prior, store_call.telegram_id).score = 10
    /\ RowOf(users, store_call.telegram_id).score = 5

\* the friends added for chat identity t, the last one added first: ids
\* grow with every row added
RecentFirst(t) ==
    {[j \in 1..Len(o) |-> Friend(o[j].friend_account_id, o[j].friend_name)] :
     o \in OrderByDesc({f \in friends : f.user_id = t}, "id")}

\* C13: for every chat identity, get_friends returns the friends added for
\* it, one entry per add_friend call and none of another identity, the most
\* recently added first.
C13_FriendsRecentFirst ==
    \A t \in TelegramIds :
        get_conn(config) # "raise" =>
            get_friends(friends, config, TRUE, t) = RecentFirst(t)

\* the module run with the SQLite statements, and with the PostgreSQL ones
SqliteConfig ==
    [ModuleConfig(TRUE, TRUE) EXCEPT !.USE_SQLITE = TRUE,
                                     !.SQLITE_AVAILABLE = "True"]

PostgresConfig == ModuleConfig(TRUE, TRUE)

\* what the queries show of a store
Observable(us, cfg) ==
    [accounts |-> [t \in TelegramIds |-> get_account_id(us, cfg, TRUE, t)],
     leaderboard |-> get_leaderboard(us, cfg, TRUE, LeaderboardLimit),
     stats |-> [t \in TelegramIds |->
                   get_user_stats(us, friends, cfg, TRUE, t)]]

\* C19: bind_user of a chat identity that is bound changes only its
\* account: after a successful re-bind the row has the score and the
\* creation time it had; and from every store reached, the SQLite statement
\* and the PostgreSQL statement of bind_user leave stores that the queries
\* cannot tell apart.
C19_RebindKeepsRow ==
    /\ Succeeded("bind_user") /\ store_call.prior # {}
        => RowsOf(users, store_call.telegram_id)
             = {[u EXCEPT !.account_id = store_call.account_id] :
                u \in store_call.prior}
    /\ \A t \in TelegramIds, a \in Accounts :
          Observable(bind_user(users, SqliteConfig, TRUE, t, a, now).users,
                     SqliteConfig)
            = Observable(bind_user(users, PostgresConfig, TRUE, t, a,
                                   now).users, PostgresConfig)

----------------------------------------------------------------------------
(* Properties of the hero catalog cache *)

\* the answer r of /constants/heroes carries the catalog
GoodReply(r) == r.net = "ok" /\ r.status = 200 /\ r.json = "object"

\* a call that found the cache populated when it began has returned the
\* populated cache without a request; a call that fetched and was answered
\* with the catalog has returned the catalog and the cache holds it
CachePopulatedOnce ==
    \A c \in Tasks :
        /\ cseen[c] => /\ cpc[c] = "done"
                       /\ creply[c] = NoHeroReply
                       /\ Truthy(cret[c])
        /\ cpc[c] = "done" /\ GoodReply(creply[c])
             => /\ cret[c] = Dict(KnownHeroes)
                /\ HEROES_CACHE = Dict(KnownHeroes)

\* a step of a call that began with the cache populated leaves the cache
\* and the number of requests as they are; no step empties a populated
\* cache or replaces a catalog it holds
CacheKept ==
    /\ \A c \in Tasks :
          cseen'[c] /\ cpc[c] # cpc'[c]
            => HEROES_CACHE' = HEROES_CACHE /\ heroes_calls' = heroes_calls
    /\ Truthy(HEROES_CACHE) => Truthy(HEROES_CACHE')
    /\ HEROES_CACHE = Dict(KnownHeroes) => HEROES_CACHE' = HEROES_CACHE

----------------------------------------------------------------------------
(* Properties of the formatter on the outcomes of the catalog load *)

\* C18: for every non-empty match list and every outcome of the catalog
\* load, get_heroes_data returns a mapping and format_matches_for_display
\* returns a summary in which a hero id that the catalog lacks has the
\* generic label; the formatter never faults on the catalog lookup.
C18_CatalogNeverFaults ==
    matches # <<>> /\ fpc \in {"returned", "raised"}
      => /\ fpc = "returned"
         /\ report.kind = "summary"
         /\ \A i \in 1..Len(report.names) :
               report.names[i].id \notin KnownHeroes
                 => ~report.names[i].known

----------------------------------------------------------------------------
(* Properties of the bind conversation *)

\* the last handler ran process_steam_url
RanSteamUrl ==
    \/ handler = "process_steam_link"
    \/ handler = "bind_command" /\ HasArgs(flow_in.msg)

FailureTexts == {"unrecognized", "no_player", "error"}

\* the user got one message, and it reports a failure
OneFailureMessage == Len(sent) = 1 /\ sent[1] \in FailureTexts

\* C15: a persistence failure degrades to an error message.  Whenever
\* bind_user returned False in process_steam_url, the user receives an
\* error message and not the confirmation that the profile is bound.
C15_BindFailureReported ==
    RanSteamUrl /\ flow_in.bind_ret = <<FALSE>> /\ ~flow_in.raised
      => OneFailureMessage

\* the link the last handler passed to the resolver
LinkOf(msg) == IF msg.command = "bind" THEN JoinArgs(msg) ELSE msg.rest

\* the resolver was called once, with the link of the message, unless the
\* chat action failed before the call
ResolvedOnce ==
    /\ resolver_calls = IF flow_in.env.typing_ok THEN 1 ELSE 0
    /\ flow_in.env.typing_ok
         => flow_in.env.account
              \in ResolverResults(LinkOf(flow_in.msg), STEAM_API_KEY)

\* C16: the Steam-URL prompt is a one-message state.  /bind without an
\* argument moves the conversation to waiting_steam_url without a call of
\* the resolver; the message handled in that state is passed to the
\* resolver once and the conversation is Idle when the handler returns,
\* whatever resolution, profile fetch and binding gave; /bind with an
\* argument passes it to the resolver at once and leaves the conversation
\* in the state it was in.
C16_OneMessageState ==
    /\ handler = "bind_command" /\ ~HasArgs(flow_in.msg) /\ ~flow_in.raised
         => fsm = "waiting_steam_url" /\ resolver_calls = 0
    /\ handler = "process_steam_link"
         => /\ flow_in.fsm = "waiting_steam_url"
            /\ ResolvedOnce
            /\ ~flow_in.raised => fsm = "idle"
    /\ handler = "bind_command" /\ HasArgs(flow_in.msg)
         => /\ ResolvedOnce
            /\ fsm = flow_in.fsm

\* after /bind, the link sent next was resolved, the profile fetched and
\* the binding written, and the conversation is Idle again
C16_Witness ==
    /\ handler = "process_steam_link"
    /\ flow_in.fsm = "waiting_steam_url"
    /\ fsm = "idle"
    /\ resolver_calls = 1
    /\ flow_in.bind_ret = <<TRUE>>
    /\ sent = <<"bound">>

\* C17: process_steam_url writes a binding only when the resolver gave an
\* identifier and get_player_data gave the player.  Otherwise bind_user is
\* not called, the table is as it was (an earlier binding is kept) and the
\* user receives one failure message.
C17_BindOnlyOnSuccess ==
    RanSteamUrl =>
      /\ bind_calls = 1
           => ~Falsy(flow_in.env.account) /\ flow_in.env.player = "json"
      /\ Falsy(flow_in.env.account) \/ flow_in.env.player = "None"
           => /\ bind_calls = 0
              /\ users = flow_in.users
              /\ ~flow_in.raised => OneFailureMessage

\* a chat that is bound sent a link of a player whose data is unavailable:
\* the binding is kept and the user is told
C17_Witness ==
    /\ RanSteamUrl
    /\ flow_in.users # {}
    /\ ~Falsy(flow_in.env.account)
    /\ flow_in.env.player = "None"
    /\ users = flow_in.users
    /\ sent = <<"no_player">>

====
